---- MODULE Spec2Model ----
(***************************************************************************)
(* Retirement projection engine of retirement_planner:                    *)
(*   retirement_planner/calculations.py and retirement_planner/models.py, *)
(* and the SIP functions of sip_planner: sip_calculator.py,               *)
(*   sip_planner.py and calculator.py.                                    *)
(*                                                                         *)
(* Amounts and rates are Python floats in the source.  They are modelled  *)
(* as rationals <<n, d>> (d > 0, lowest terms), and every product, power, *)
(* sum and comparison is computed in the order the source computes it.    *)
(* With float_bits = 0 no operation rounds: the inputs are small dyadic    *)
(* numbers, whose sums and products fit the 53-bit mantissa of a float.   *)
(* With float_bits > 0 every + and - on amounts (the sums of the children's *)
(* charges, total_withdrawals, corpus_end, the sum and the difference of   *)
(* the bounds of a bisection) rounds its result to a mantissa of           *)
(* float_bits bits, ties to even, as float + and - do at 53 bits; the runs *)
(* with float_bits > 0 have inputs for which every * and ** has a factor   *)
(* 0, 1 or 2 and is exact.                                                 *)
(***************************************************************************)
EXTENDS Integers, Sequences, FiniteSets

(***************************************************************************)
(* State: one call of generate_yearly_projections(params), or one call of  *)
(* a function of sip_planner.                                              *)
(***************************************************************************)
VARIABLES
    params,          \* the argument of generate_yearly_projections
    now_year,        \* datetime.datetime.now().year
    pc,              \* "loop", "break", "done" (returned), "error" (raised),
                     \* "idle" (generate_yearly_projections is not running)
    year,            \* the loop variable: the next value range() yields
    current_corpus,  \* line 58, 109-113
    projections,     \* line 57, 118: the list that is returned
    locals,          \* per iteration: is_retired, return_rate and what the
                     \* calls of lines 83-95 returned for each child
    float_bits,      \* width of the float mantissa when it is narrower than
                     \* the values of the run need; 0 when every value fits
    sip              \* the running call of sip_planner, [fn |-> "none"]
                     \* while there is none

(***************************************************************************)
(* Bounds of the model.                                                    *)
(***************************************************************************)
\* largest life_expectancy - current_age that is explored
MaxHorizon == 3
\* longest RetirementParams.children list that is explored
MaxChildren == 2
\* width of the float mantissa in the runs that round
FloatBits == 4
\* largest binary exponent, up or down, of a float in the runs that round
MaxExponent == 8
\* longest tenure_years of calculate_sip that is explored
MaxTenureYears == 3
\* longest tenure in months that is explored with a monthly rate above 0
MaxGrowthMonths == 13
\* largest count of passes of a bisection loop that is kept: a loop that
\* makes more passes is counted from 0 again
MaxIterations == 12

(***************************************************************************)
(* Program constants.                                                      *)
(***************************************************************************)
SchoolStartAge == 5
SchoolEndAge == 17
GraduationStartAge == 18
GraduationEndAge == 21
GraduationYears == 4
MonthsPerYear == 12

(***************************************************************************)
(* Exact arithmetic standing for the float operators + - * / ** < <= ==.   *)
(***************************************************************************)
Abs(x) == IF x < 0 THEN -x ELSE x

\* Euclid's algorithm
GcdOf[a \in Nat, b \in Nat] == IF b = 0 THEN a ELSE GcdOf[b, a % b]

Gcd(a, b) == GcdOf[a, b]

\* the rational n/d in lowest terms with a positive denominator
R(n, d) ==
    LET s == IF d < 0 THEN -1 ELSE 1
        g == Gcd(Abs(n), Abs(d))
    IN  <<(s * n) \div g, (s * d) \div g>>

Num(x) == x[1]
Den(x) == x[2]
RInt(k) == <<k, 1>>
Zero == RInt(0)
One == RInt(1)

\* the binary exponent e of the positive n / d for a mantissa of bits bits:
\* 2^(bits-1) <= (n / d) / 2^e < 2^bits
float_exponent[n \in Nat, d \in Nat, bits \in Nat] ==
    CHOOSE k \in (0 - MaxExponent)..MaxExponent :
        /\ 2^(bits - 1) * d * 2^(IF k > 0 THEN k ELSE 0)
              <= n * 2^(IF k < 0 THEN 0 - k ELSE 0)
        /\ n * 2^(IF k < 0 THEN 0 - k ELSE 0)
              < 2^bits * d * 2^(IF k > 0 THEN k ELSE 0)

\* the mantissa of the positive n / d at the exponent e: (n / d) / 2^e
\* rounded to an integer, ties to even
float_mantissa[n \in Nat, d \in Nat, e \in Int] ==
    LET sn == n * 2^(IF e < 0 THEN 0 - e ELSE 0)
        sd == d * 2^(IF e > 0 THEN e ELSE 0)
        below == sn \div sd
        twice == 2 * (sn - below * sd)
    IN  IF twice < sd THEN below
        ELSE IF twice > sd THEN below + 1
        ELSE IF below % 2 = 0 THEN below ELSE below + 1

\* the float sign * m * 2^e
float_of[sign \in Int, m \in Nat, e \in Int] ==
    R(sign * m * 2^(IF e > 0 THEN e ELSE 0), 2^(IF e < 0 THEN 0 - e ELSE 0))

\* x rounded to the nearest float with a mantissa of bits bits, ties to
\* even
RoundTo(x, bits) ==
    IF Num(x) = 0
    THEN x
    ELSE float_of[IF Num(x) < 0 THEN 0 - 1 ELSE 1,
                  float_mantissa[Abs(Num(x)), Den(x),
                                 float_exponent[Abs(Num(x)), Den(x), bits]],
                  float_exponent[Abs(Num(x)), Den(x), bits]]

\* the float result of an operation whose exact result is x
Fl(x) == IF float_bits = 0 THEN x ELSE RoundTo(x, float_bits)

\* the pairs <<n, d>> that stand for n / d
Rationals == Int \X Nat

sum_of[x \in Rationals, y \in Rationals] ==
    LET g == Gcd(Den(x), Den(y))
    IN  R(Num(x) * (Den(y) \div g) + Num(y) * (Den(x) \div g),
          (Den(x) \div g) * Den(y))

RAdd(x, y) == sum_of[x, y]

\* float + of two amounts
RAddRounded(x, y) == Fl(RAdd(x, y))

RNeg(x) == <<-Num(x), Den(x)>>
RSub(x, y) == RAdd(x, RNeg(y))

\* float - of two amounts
RSubRounded(x, y) == Fl(RSub(x, y))

product_of[x \in Rationals, y \in Rationals] ==
    LET g1 == Gcd(Abs(Num(x)), Den(y))
        g2 == Gcd(Abs(Num(y)), Den(x))
    IN  R((Num(x) \div g1) * (Num(y) \div g2),
          (Den(x) \div g2) * (Den(y) \div g1))

RMul(x, y) == product_of[x, y]

\* x / k for a positive integer k
RDivInt(x, k) == RMul(x, R(1, k))

\* the product of r.left factors x and r.product
RECURSIVE RPowFrom(_, _)
RPowFrom(x, r) ==
    IF r.left = 0
    THEN r
    ELSE RPowFrom(x, [left |-> r.left - 1, product |-> RMul(x, r.product)])

\* x ** k for an integer k >= 0
RPow(x, k) == RPowFrom(x, [left |-> k, product |-> One]).product

RLt(x, y) == Num(x) * Den(y) < Num(y) * Den(x)
RLe(x, y) == Num(x) * Den(y) <= Num(y) * Den(x)
RMax(x, y) == IF RLt(x, y) THEN y ELSE x

(***************************************************************************)
(* models.py                                                               *)
(***************************************************************************)
\* YearlyProjection.total_withdrawals
total_withdrawals(projection) ==
    RAddRounded(RAddRounded(RAddRounded(projection.household_expense,
                                        projection.school_fees),
                            projection.graduation_fees),
                projection.marriage_expense)

\* corpus_end with the withdrawals taken before the year's growth
corpus_end_withdraw_first(projection, return_rate) ==
    RMul(RSub(projection.corpus_start, total_withdrawals(projection)),
         RAdd(One, return_rate))

\* corpus_end with the sign of the return slipped
corpus_end_rate_subtracted(projection, return_rate) ==
    RSub(RMul(projection.corpus_start, RSub(One, return_rate)),
         total_withdrawals(projection))

\* YearlyProjection.corpus_end(return_rate)
corpus_end(projection, return_rate) ==
    RSubRounded(RMul(projection.corpus_start, RAdd(One, return_rate)),
                total_withdrawals(projection))

(***************************************************************************)
(* calculations.py: the per-year expense functions                         *)
(***************************************************************************)
\* calculate_inflated_amount with * written for **
calculate_inflated_amount_linear(amount, inflation, years) ==
    RMul(amount, RMul(RAdd(One, inflation), RInt(years)))

calculate_inflated_amount(amount, inflation, years) ==
    RMul(amount, RPow(RAdd(One, inflation), years))

\* the floor division of line 23 raises ZeroDivisionError
school_fees_raises(child, child_age) ==
    /\ ~(child_age < SchoolStartAge \/ child_age > SchoolEndAge)
    /\ child.fee_increase_frequency = 0

\* calculate_school_fees with the increases counted from the plan's start
calculate_school_fees_from_plan(child, current_year, inflation, child_age) ==
    IF child_age < SchoolStartAge \/ child_age > SchoolEndAge
    THEN Zero
    ELSE LET num_increases == current_year \div child.fee_increase_frequency
             current_fee == RMul(child.school_fee,
                                 RPow(RAdd(One, child.school_fee_increase),
                                      num_increases))
         IN  calculate_inflated_amount(current_fee, inflation, current_year)

calculate_school_fees(child, current_year, inflation, child_age) ==
    IF child_age < SchoolStartAge \/ child_age > SchoolEndAge
    THEN Zero
    ELSE LET years_since_start == child_age - SchoolStartAge
             num_increases == years_since_start \div child.fee_increase_frequency
             current_fee == RMul(child.school_fee,
                                 RPow(RAdd(One, child.school_fee_increase),
                                      num_increases))
         IN  calculate_inflated_amount(current_fee, inflation, current_year)

\* calculate_graduation_fees with its window opened a year early
calculate_graduation_fees_from_17(child, current_year, inflation, child_age) ==
    IF SchoolEndAge <= child_age /\ child_age <= GraduationEndAge
    THEN LET annual_fee == RDivInt(child.graduation_fee, GraduationYears)
         IN  calculate_inflated_amount(annual_fee, inflation, current_year)
    ELSE Zero

calculate_graduation_fees(child, current_year, inflation, child_age) ==
    IF GraduationStartAge <= child_age /\ child_age <= GraduationEndAge
    THEN LET annual_fee == RDivInt(child.graduation_fee, GraduationYears)
         IN  calculate_inflated_amount(annual_fee, inflation, current_year)
    ELSE Zero

\* calculate_marriage_expense with >= written for ==
calculate_marriage_expense_from_age(child, current_year, inflation, child_age) ==
    IF child_age >= child.marriage_age
    THEN calculate_inflated_amount(child.marriage_cost, inflation, current_year)
    ELSE Zero

\* calculate_marriage_expense with <= written for ==
calculate_marriage_expense_until_age(child, current_year, inflation, child_age) ==
    IF child_age <= child.marriage_age
    THEN calculate_inflated_amount(child.marriage_cost, inflation, current_year)
    ELSE Zero

calculate_marriage_expense(child, current_year, inflation, child_age) ==
    IF child_age = child.marriage_age
    THEN calculate_inflated_amount(child.marriage_cost, inflation, current_year)
    ELSE Zero

(***************************************************************************)
(* calculations.py: generate_yearly_projections, one loop iteration        *)
(***************************************************************************)
\* in_range with the end of range() left at life_expectancy
in_range_exclusive(p, y) == p.current_age <= y /\ y < p.life_expectancy

\* line 60: y is a value of range(current_age, life_expectancy + 1)
in_range(p, y) == p.current_age <= y /\ y <= p.life_expectancy

\* is_retired with > written for >=
is_retired_after(p, y) == y > p.retirement_age

\* lines 62-63
is_retired_in(p, y) == y >= p.retirement_age

return_rate_in(p, y) ==
    IF is_retired_in(p, y) THEN p.post_ret_return ELSE p.pre_ret_return

\* lines 66-71
household_expense_in(p, y) ==
    calculate_inflated_amount(RMul(p.monthly_expenses, RInt(MonthsPerYear)),
                              p.inflation, y - p.current_age)

\* lines 79-95: what the three calls add for the i-th child
child_charges(p, y, i) ==
    LET child == p.children[i]
        years_elapsed == y - p.current_age
        child_age == child.current_age + years_elapsed
    IN  [school |-> calculate_school_fees(child, years_elapsed, p.inflation, child_age),
         graduation |-> calculate_graduation_fees(child, years_elapsed, p.inflation, child_age),
         marriage |-> calculate_marriage_expense(child, years_elapsed, p.inflation, child_age)]

\* child_totals with the trackers initialised inside the loop over children
child_totals_reset(p, y, n) ==
    IF n = 0
    THEN [school |-> Zero, graduation |-> Zero, marriage |-> Zero]
    ELSE child_charges(p, y, n)

\* lines 74-95: the running totals after the first n children
RECURSIVE child_totals(_, _, _)
child_totals(p, y, n) ==
    IF n = 0
    THEN [school |-> Zero, graduation |-> Zero, marriage |-> Zero]
    ELSE LET before == child_totals(p, y, n - 1)
             c == child_charges(p, y, n)
         IN  [school |-> RAddRounded(before.school, c.school),
              graduation |-> RAddRounded(before.graduation, c.graduation),
              marriage |-> RAddRounded(before.marriage, c.marriage)]

\* some call of calculate_school_fees in this iteration raises
iteration_raises(p, y) ==
    \E i \in 1..Len(p.children) :
        school_fees_raises(p.children[i],
                           p.children[i].current_age + (y - p.current_age))

\* yearly_projection with corpus_start read from params every year
yearly_projection_uncarried(p, y, corpus, now) ==
    LET totals == child_totals(p, y, Len(p.children))
    IN  [year |-> now + (y - p.current_age),
         age |-> y,
         corpus_start |-> p.current_corpus,
         household_expense |-> household_expense_in(p, y),
         school_fees |-> totals.school,
         graduation_fees |-> totals.graduation,
         marriage_expense |-> totals.marriage]

\* lines 98-106: the YearlyProjection built for the year
yearly_projection(p, y, corpus, now) ==
    LET totals == child_totals(p, y, Len(p.children))
    IN  [year |-> now + (y - p.current_age),
         age |-> y,
         corpus_start |-> corpus,
         household_expense |-> household_expense_in(p, y),
         school_fees |-> totals.school,
         graduation_fees |-> totals.graduation,
         marriage_expense |-> totals.marriage]

\* clamp_corpus with the floor left out
clamp_corpus_missing(c) == c

\* lines 109-113: the year's closing corpus, floored at 0
clamp_corpus(c) == IF RLt(c, Zero) THEN Zero ELSE c

closing_corpus(p, y, corpus, now) ==
    clamp_corpus(corpus_end(yearly_projection(p, y, corpus, now),
                            return_rate_in(p, y)))

\* lines 116-117: asdict(projection) with corpus_end added
projection_dict(p, y, corpus, now) ==
    LET pr == yearly_projection(p, y, corpus, now)
    IN  [year |-> pr.year,
         age |-> pr.age,
         corpus_start |-> pr.corpus_start,
         household_expense |-> pr.household_expense,
         school_fees |-> pr.school_fees,
         graduation_fees |-> pr.graduation_fees,
         marriage_expense |-> pr.marriage_expense,
         corpus_end |-> closing_corpus(p, y, corpus, now)]

\* append_projection with one dict object reused for every year
append_projection_shared(list, d) == [k \in 1..(Len(list) + 1) |-> d]

\* line 118: projections.append(projection_dict)
append_projection(list, d) == Append(list, d)

\* stops_after with < written for <=
stops_after_strict(p, y, closing) == RLt(closing, Zero) /\ y < p.life_expectancy

\* lines 121-122: the depletion stop
stops_after(p, y, closing) == RLe(closing, Zero) /\ y < p.life_expectancy

(***************************************************************************)
(* calculations.py: generate_yearly_projections as a function of its       *)
(* argument, for params none of whose iterations raises: the list returned *)
(* when the loop is entered at year y with corpus carried and out appended *)
(* so far.                                                                  *)
(***************************************************************************)
RECURSIVE projections_from(_, _, _, _, _)
projections_from(p, y, corpus, out, now) ==
    IF ~in_range(p, y)
    THEN out
    ELSE LET closing == closing_corpus(p, y, corpus, now)
             longer == append_projection(out, projection_dict(p, y, corpus, now))
         IN  IF stops_after(p, y, closing)
             THEN longer
             ELSE projections_from(p, y + 1, closing, longer, now)

generate_yearly_projections(p, now) ==
    projections_from(p, p.current_age, p.current_corpus, <<>>, now)

(***************************************************************************)
(* Inputs: the RetirementParams a call is made with.                       *)
(***************************************************************************)
Half == R(1, 2)

CurrentAges == {40}
Corpora == {RInt(0), RInt(600), RInt(2000)}
PreReturns == {Zero, Half, One}
PostReturns == {Zero, Half}
Inflations == {Zero, Half}
MonthlyExpenses == {RInt(0), RInt(50)}
NowYears == {2026}

Child(age, fee, increase, frequency, graduation, cost, marriage) ==
    [current_age |-> age,
     school_fee |-> fee,
     school_fee_increase |-> increase,
     fee_increase_frequency |-> frequency,
     graduation_fee |-> graduation,
     marriage_cost |-> cost,
     marriage_age |-> marriage]

\* starts school during the plan, marriage_age already behind
Toddler == Child(3, RInt(8), Half, 1, RInt(40), RInt(30), 2)
\* leaves school for graduation during the plan, marries at 18
Teen == Child(16, RInt(8), Half, 2, RInt(40), RInt(30), 18)
\* finishes graduation during the plan, marriage_age beyond the horizon
Student == Child(20, RInt(8), One, 3, RInt(40), RInt(30), 40)

ChildPool == {Toddler, Teen, Student}

\* the lists of up to n different children of the pool, in every order
RECURSIVE ChildLists(_)
ChildLists(n) ==
    IF n = 0
    THEN {<<>>}
    ELSE LET shorter == ChildLists(n - 1)
             longest == {l \in shorter : Len(l) = n - 1}
             used(l) == {l[i] : i \in 1..Len(l)}
         IN  shorter \cup
             UNION {{Append(l, c) : c \in ChildPool \ used(l)} : l \in longest}

\* RetirementParams with current_age <= retirement_age <= life_expectancy
PlanParams ==
    {[current_age |-> a,
      retirement_age |-> a + r,
      life_expectancy |-> a + l,
      current_corpus |-> c,
      pre_ret_return |-> pre,
      post_ret_return |-> post,
      inflation |-> inf,
      monthly_expenses |-> m,
      children |-> ch] :
        a \in CurrentAges,
        r \in 0..MaxHorizon,
        l \in 0..MaxHorizon,
        c \in Corpora, pre \in PreReturns, post \in PostReturns,
        inf \in Inflations, m \in MonthlyExpenses,
        ch \in ChildLists(MaxChildren)}

\* the scenario of the specification's section 8
ScenarioParams ==
    [current_age |-> 30,
     retirement_age |-> 60,
     life_expectancy |-> 85,
     current_corpus |-> RInt(1000000),
     pre_ret_return |-> R(10, 100),
     post_ret_return |-> R(7, 100),
     inflation |-> R(6, 100),
     monthly_expenses |-> RInt(50000),
     children |-> <<>>]

ValidAges(p) ==
    p.current_age <= p.retirement_age /\ p.retirement_age <= p.life_expectancy

AllParams == {p \in PlanParams : ValidAges(p)} \cup {ScenarioParams}

vars == <<params, now_year, pc, year, current_corpus, projections, locals,
          float_bits, sip>>

\* no function of sip_planner is running
NoSip == [fn |-> "none"]

Init ==
    /\ params \in AllParams
    /\ now_year \in NowYears
    /\ pc = "loop"
    /\ year = params.current_age
    /\ current_corpus = params.current_corpus
    /\ projections = <<>>
    /\ locals = <<>>
    /\ float_bits = 0
    /\ sip = NoSip

\* one pass of the for loop, lines 60-122
Iterate ==
    /\ pc = "loop"
    /\ in_range(params, year)
    /\ IF iteration_raises(params, year)
       THEN /\ pc' = "error"
            /\ UNCHANGED <<year, current_corpus, projections, locals>>
       ELSE LET closing == closing_corpus(params, year, current_corpus, now_year)
            IN  /\ current_corpus' = closing
                /\ projections' = append_projection(projections,
                       projection_dict(params, year, current_corpus, now_year))
                /\ locals' = Append(locals,
                       [is_retired |-> is_retired_in(params, year),
                        return_rate |-> return_rate_in(params, year),
                        charges |-> [i \in 1..Len(params.children) |->
                                        child_charges(params, year, i)]])
                /\ IF stops_after(params, year, closing)
                   THEN pc' = "break" /\ year' = year
                   ELSE pc' = "loop" /\ year' = year + 1
    /\ UNCHANGED <<params, now_year, float_bits, sip>>

\* line 124, after the break or after range() is exhausted
Return ==
    /\ \/ pc = "break"
       \/ pc = "loop" /\ ~in_range(params, year)
    /\ pc' = "done"
    /\ UNCHANGED <<params, now_year, year, current_corpus, projections, locals,
                   float_bits, sip>>

Next == Iterate \/ Return

Spec == Init /\ [][Next]_vars

(***************************************************************************)
(* The same call with floats that round: plans with up to three children   *)
(* at school, whose fees a mantissa of FloatBits bits holds but whose sums *)
(* it does not always hold.  Rates, inflation and expenses are 0, so that  *)
(* products and powers are exact.                                           *)
(***************************************************************************)
Eldest == Child(12, RInt(1), Zero, 20, RInt(4), RInt(2), 14)
Middle == Child(11, RInt(1), Zero, 20, RInt(4), RInt(2), 30)
Youngest == Child(10, RInt(16), Zero, 20, RInt(4), RInt(2), 30)

FloatChildLists ==
    LET pool == {Eldest, Middle, Youngest}
    IN  UNION {{l \in [1..n -> pool] : \A i, j \in 1..n : l[i] = l[j] => i = j} :
               n \in 0..3}

FloatParams ==
    {[current_age |-> a,
      retirement_age |-> a + r,
      life_expectancy |-> a + l,
      current_corpus |-> c,
      pre_ret_return |-> Zero,
      post_ret_return |-> Zero,
      inflation |-> Zero,
      monthly_expenses |-> Zero,
      children |-> ch] :
        a \in CurrentAges,
        r \in 0..MaxHorizon,
        l \in 0..MaxHorizon,
        c \in {RInt(0), RInt(64)},
        ch \in FloatChildLists}

InitFloat ==
    /\ params \in {p \in FloatParams : ValidAges(p)}
    /\ now_year \in NowYears
    /\ pc = "loop"
    /\ year = params.current_age
    /\ current_corpus = params.current_corpus
    /\ projections = <<>>
    /\ locals = <<>>
    /\ float_bits = FloatBits
    /\ sip = NoSip

SpecFloat == InitFloat /\ [][Next]_vars

(***************************************************************************)
(* The same call on RetirementParams that break the documented input rules: *)
(* ages out of order, or a child whose fee_increase_frequency is 0.  The    *)
(* code has no validation step, so the call starts like any other.          *)
(***************************************************************************)
\* fee_increase_frequency 0: at school from the first year (6), from the
\* third year (3), never (20)
Unscheduled(age) == Child(age, RInt(8), Half, 0, RInt(40), RInt(30), 40)

UnscheduledAges == {3, 6, 20}

\* retirement_age and life_expectancy as offsets from current_age
InvalidOffsets ==
    {o \in ((0 - 2)..MaxHorizon) \X ((0 - 1)..MaxHorizon) : o[1] < 0 \/ o[1] > o[2]}

AgeInvalidParams ==
    {[current_age |-> a,
      retirement_age |-> a + o[1],
      life_expectancy |-> a + o[2],
      current_corpus |-> c,
      pre_ret_return |-> Half,
      post_ret_return |-> Zero,
      inflation |-> Zero,
      monthly_expenses |-> e,
      children |-> ch] :
        a \in CurrentAges,
        o \in InvalidOffsets,
        c \in Corpora,
        e \in MonthlyExpenses,
        ch \in {<<>>, <<Teen>>}}

ChildInvalidParams ==
    {[current_age |-> a,
      retirement_age |-> a + r,
      life_expectancy |-> a + MaxHorizon,
      current_corpus |-> c,
      pre_ret_return |-> Half,
      post_ret_return |-> Zero,
      inflation |-> Zero,
      monthly_expenses |-> e,
      children |-> ch] :
        a \in CurrentAges,
        r \in 0..MaxHorizon,
        c \in Corpora,
        e \in MonthlyExpenses,
        ch \in {<<Unscheduled(g)>> : g \in UnscheduledAges}
                 \cup {<<Teen, Unscheduled(g)>> : g \in UnscheduledAges}}

\* the input rules of RetirementParams and Child are broken
InvalidInput(p) ==
    \/ p.current_age > p.retirement_age
    \/ p.retirement_age > p.life_expectancy
    \/ \E i \in 1..Len(p.children) : p.children[i].fee_increase_frequency < 1

InitInvalid ==
    /\ params \in AgeInvalidParams \cup ChildInvalidParams
    /\ now_year \in NowYears
    /\ pc = "loop"
    /\ year = params.current_age
    /\ current_corpus = params.current_corpus
    /\ projections = <<>>
    /\ locals = <<>>
    /\ float_bits = 0
    /\ sip = NoSip

SpecInvalid == InitInvalid /\ [][Next]_vars

(***************************************************************************)
(* The same call under a wall clock that the caller does not control: line  *)
(* 99 reads datetime.datetime.now().year in every iteration, and the year   *)
(* may turn between two iterations or between two calls.                    *)
(***************************************************************************)
ClockYears == {2026, 2027}

ClockParams == {p \in AllParams : p.children = <<>>}

InitClock ==
    /\ params \in ClockParams
    /\ now_year \in ClockYears
    /\ pc = "loop"
    /\ year = params.current_age
    /\ current_corpus = params.current_corpus
    /\ projections = <<>>
    /\ locals = <<>>
    /\ float_bits = 0
    /\ sip = NoSip

\* the calendar year turns while the call is running
Tick ==
    /\ pc = "loop"
    /\ now_year + 1 \in ClockYears
    /\ now_year' = now_year + 1
    /\ UNCHANGED <<params, pc, year, current_corpus, projections, locals,
                   float_bits, sip>>

NextClock == Iterate \/ Return \/ Tick

SpecClock == InitClock /\ [][NextClock]_vars

(***************************************************************************)
(* sip_planner/sip_calculator.py: calculate_sip                            *)
(***************************************************************************)
\* line 38
monthly_rate_of(rate_of_return) == RDivInt(RDivInt(rate_of_return, 100), 12)

\* line 39
total_months_of(a) == (a.tenure_years * 12) + a.tenure_months

\* the dict of lines 54-60, 83-89 and 110-116
sip_row(row_year, monthly_investment, total_invested, corpus) ==
    [year |-> row_year,
     monthly_investment |-> monthly_investment,
     total_invested |-> total_invested,
     corpus |-> corpus,
     returns |-> RSub(corpus, total_invested)]

\* lines 42-65: the locals before the loop; paid logs the contribution of
\* every month
sip_start(a) ==
    [month |-> 0,
     current_investment |-> a.monthly_investment,
     total_invested |-> a.initial_investment,
     corpus |-> a.initial_investment,
     projections |-> IF RLt(Zero, a.initial_investment)
                     THEN <<sip_row(0, a.monthly_investment,
                                    a.initial_investment, a.initial_investment)>>
                     ELSE <<>>,
     current_year |-> 1,
     paid |-> <<>>]

\* stepped_up with the fixed rule applied in both modes
stepped_up_always_fixed(a, s) ==
    RMul(a.monthly_investment,
         RAdd(One, RMul(RDivInt(a.yearly_step_up, 100), RInt(s.current_year))))

\* stepped_up with the compounded rule applied in both modes
stepped_up_always_compounded(a, s) ==
    RMul(s.current_investment, RAdd(One, RDivInt(a.yearly_step_up, 100)))

\* lines 93-98: the contribution of the next year
stepped_up(a, s) ==
    IF a.step_up_type = "compounded"
    THEN RMul(s.current_investment, RAdd(One, RDivInt(a.yearly_step_up, 100)))
    ELSE RMul(a.monthly_investment,
              RAdd(One, RMul(RDivInt(a.yearly_step_up, 100), RInt(s.current_year))))

\* grown with the month's return applied before the contribution is added
grown_before_contribution(a, s) ==
    RAdd(RMul(s.corpus, RAdd(One, monthly_rate_of(a.rate_of_return))),
         s.current_investment)

\* grown with the contribution taken out of the corpus
grown_contribution_withdrawn(a, s) ==
    RMul(RSub(s.corpus, s.current_investment),
         RAdd(One, monthly_rate_of(a.rate_of_return)))

\* lines 72 and 76: the corpus at the end of the month
grown(a, s) ==
    RMul(RAdd(s.corpus, s.current_investment),
         RAdd(One, monthly_rate_of(a.rate_of_return)))

\* lines 70-100: one pass of the loop, for month s.month + 1
sip_month(a, s) ==
    LET month == s.month + 1
        corpus == grown(a, s)
        total_invested == RAdd(s.total_invested, s.current_investment)
        year_end == month % 12 = 0 /\ month < total_months_of(a)
    IN  [month |-> month,
         current_investment |-> IF year_end /\ s.current_year >= 1
                                THEN stepped_up(a, s)
                                ELSE s.current_investment,
         total_invested |-> total_invested,
         corpus |-> corpus,
         projections |-> IF year_end
                         THEN Append(s.projections,
                                     sip_row(month \div 12, s.current_investment,
                                             total_invested, corpus))
                         ELSE s.projections,
         current_year |-> IF year_end THEN s.current_year + 1 ELSE s.current_year,
         paid |-> Append(s.paid, s.current_investment)]

\* final_rows with the row of the final year appended after every loop
final_rows_always(a, s) ==
    LET total_months == total_months_of(a)
        partial == IF total_months % 12 > 0 THEN 1 ELSE 0
        row_year == IF s.projections # <<>>
                    THEN s.projections[Len(s.projections)].year + partial
                    ELSE (total_months \div 12) + partial
    IN  Append(s.projections,
               sip_row(row_year, s.current_investment, s.total_invested, s.corpus))

\* lines 103-116: the rows with the row of the final, partial year
final_rows(a, s) ==
    LET total_months == total_months_of(a)
        partial == IF total_months % 12 > 0 THEN 1 ELSE 0
        row_year == IF s.projections # <<>>
                    THEN s.projections[Len(s.projections)].year + partial
                    ELSE (total_months \div 12) + partial
    IN  IF total_months % 12 # 0 \/ s.projections = <<>>
        THEN Append(s.projections,
                    sip_row(row_year, s.current_investment, s.total_invested,
                            s.corpus))
        ELSE s.projections

\* lines 121-126
sip_result(a, s) ==
    [final_amount |-> s.corpus,
     total_invested |-> s.total_invested,
     total_returns |-> RSub(s.corpus, s.total_invested),
     projection |-> final_rows(a, s)]

\* lines 70-100: the loop from the locals s on
RECURSIVE sip_loop(_, _)
sip_loop(a, s) ==
    IF s.month >= total_months_of(a) THEN s ELSE sip_loop(a, sip_month(a, s))

calculate_sip(a) == sip_result(a, sip_loop(a, sip_start(a)))

(***************************************************************************)
(* Inputs of calculate_sip: contributions of 1 and 10,000, tenures of 0 to  *)
(* MaxTenureYears years with 0 or 1 extra month, a yearly return of 0 or    *)
(* 1200 percent (a monthly rate of 0 or 1), the latter for tenures of at    *)
(* most MaxGrowthMonths months.                                             *)
(***************************************************************************)
MonthlyInvestments == {RInt(1), RInt(10000)}
RatesOfReturn == {RInt(0), RInt(1200)}
YearlyStepUps == {RInt(0), RInt(50), RInt(100)}
InitialInvestments == {RInt(0), RInt(8)}
ExtraMonths == {0, 1}
StepUpTypes == {"compounded", "fixed"}

SipArgs ==
    {a \in [monthly_investment : MonthlyInvestments,
            tenure_years : 0..MaxTenureYears,
            rate_of_return : RatesOfReturn,
            yearly_step_up : YearlyStepUps,
            initial_investment : InitialInvestments,
            tenure_months : ExtraMonths,
            step_up_type : StepUpTypes] :
        a.rate_of_return = Zero \/ total_months_of(a) <= MaxGrowthMonths}

\* generate_yearly_projections is not running
Idle ==
    /\ params = ScenarioParams
    /\ now_year \in NowYears
    /\ pc = "idle"
    /\ year = 0
    /\ current_corpus = Zero
    /\ projections = <<>>
    /\ locals = <<>>
    /\ float_bits = 0

InitSip ==
    /\ Idle
    /\ sip \in {[fn |-> "calculate_sip", pc |-> "loop", args |-> a,
                 s |-> sip_start(a)] : a \in SipArgs}

\* one pass of the for loop, lines 70-100
SipMonth ==
    /\ sip.fn = "calculate_sip"
    /\ sip.pc = "loop"
    /\ sip.s.month < total_months_of(sip.args)
    /\ sip' = [sip EXCEPT !.s = sip_month(sip.args, sip.s)]
    /\ UNCHANGED <<params, now_year, pc, year, current_corpus, projections,
                   locals, float_bits>>

\* lines 103-126, after range() is exhausted
SipReturn ==
    /\ sip.fn = "calculate_sip"
    /\ sip.pc = "loop"
    /\ sip.s.month >= total_months_of(sip.args)
    /\ sip' = [fn |-> "calculate_sip", pc |-> "done", args |-> sip.args,
               s |-> sip.s, result |-> sip_result(sip.args, sip.s)]
    /\ UNCHANGED <<params, now_year, pc, year, current_corpus, projections,
                   locals, float_bits>>

NextSip == SipMonth \/ SipReturn

SpecSip == InitSip /\ [][NextSip]_vars

(***************************************************************************)
(* sip_planner/sip_calculator.py: calculate_sip_required, and              *)
(* sip_planner/sip_planner.py: calculate_required_sip.  The arguments of    *)
(* both are held under the names of calculate_sip_required (tenure_years    *)
(* and rate_of_return are years and expected_return_rate in                 *)
(* calculate_required_sip).                                                 *)
(***************************************************************************)
\* tolerance, sip_calculator.py line 156 and sip_planner.py line 38
Tolerance == R(1, 100)

\* the arguments of the calculate_sip calls of lines 160-167 and 175-182
sip_call(a, monthly_investment) ==
    [monthly_investment |-> monthly_investment,
     tenure_years |-> a.tenure_years,
     rate_of_return |-> a.rate_of_return,
     yearly_step_up |-> a.yearly_step_up,
     initial_investment |-> a.initial_investment,
     tenure_months |-> a.tenure_months,
     step_up_type |-> "compounded"]

\* sip_planner.py lines 48-57: the loop of calculate_final_amount from the
\* locals e on
RECURSIVE final_amount_loop(_, _)
final_amount_loop(a, e) ==
    IF e.month >= total_months_of(a)
    THEN e
    ELSE LET month == e.month + 1
         IN  final_amount_loop(a,
                 [month |-> month,
                  corpus |-> RMul(RAdd(e.corpus, e.current_sip),
                                  RAdd(One, monthly_rate_of(a.rate_of_return))),
                  current_sip |-> IF month % 12 = 0 /\ month < total_months_of(a)
                                  THEN RMul(e.current_sip,
                                            RAdd(One, RDivInt(a.yearly_step_up, 100)))
                                  ELSE e.current_sip])

\* sip_planner.py lines 40-59
calculate_final_amount(a, sip_amount) ==
    final_amount_loop(a, [month |-> 0,
                          corpus |-> a.initial_investment,
                          current_sip |-> sip_amount]).corpus

\* the dict of sip_planner.py lines 110-117 and 134-141
required_row(row_year, monthly_sip, r) ==
    [year |-> row_year,
     monthly_sip |-> monthly_sip,
     yearly_investment |-> r.year_investment,
     total_invested |-> r.total_invested,
     corpus |-> r.corpus,
     returns |-> RSub(r.corpus, r.total_invested)]

\* sip_planner.py lines 88-103: the months of year r.year after month r.month
RECURSIVE required_months(_, _)
required_months(a, r) ==
    IF r.month >= 12 \/ ((r.year - 1) * 12) + r.month + 1 > total_months_of(a)
    THEN r
    ELSE LET month == r.month + 1
         IN  required_months(a,
                 [r EXCEPT
                     !.month = month,
                     !.corpus = RMul(RAdd(r.corpus, r.current_sip),
                                     RAdd(One, monthly_rate_of(a.rate_of_return))),
                     !.year_investment = RAdd(r.year_investment, r.current_sip),
                     !.total_invested = RAdd(r.total_invested, r.current_sip),
                     !.current_sip =
                         IF month % 12 = 0 /\ (r.year * 12) < total_months_of(a)
                         THEN RMul(r.current_sip,
                                   RAdd(One, RDivInt(a.yearly_step_up, 100)))
                         ELSE r.current_sip])

\* sip_planner.py lines 85-117: the years from r.year on
RECURSIVE required_years(_, _, _)
required_years(a, result, r) ==
    IF r.year > a.tenure_years
    THEN r
    ELSE LET e == required_months(a, [r EXCEPT !.month = 0,
                                               !.year_investment = Zero])
             monthly_sip_for_display == IF r.year = 1 THEN result ELSE e.current_sip
         IN  required_years(a, result,
                 [e EXCEPT
                     !.year = r.year + 1,
                     !.projections = Append(e.projections,
                         required_row(r.year, monthly_sip_for_display, e))])

\* sip_planner.py lines 124-131: the remaining months after month r.month
RECURSIVE remaining_months_loop(_, _)
remaining_months_loop(a, r) ==
    IF r.month >= a.tenure_months % 12
    THEN r
    ELSE remaining_months_loop(a,
             [r EXCEPT
                 !.month = r.month + 1,
                 !.corpus = RMul(RAdd(r.corpus, r.current_sip),
                                 RAdd(One, monthly_rate_of(a.rate_of_return))),
                 !.year_investment = RAdd(r.year_investment, r.current_sip),
                 !.total_invested = RAdd(r.total_invested, r.current_sip)])

\* sip_planner.py lines 119-141
required_partial_year(a, r) ==
    IF a.tenure_months % 12 > 0
    THEN LET e == remaining_months_loop(a, [r EXCEPT !.month = 0,
                                                     !.year_investment = Zero])
         IN  [e EXCEPT !.projections = Append(e.projections,
                  required_row(RAdd(RInt(a.tenure_years),
                                    RDivInt(RInt(a.tenure_months), 12)),
                               e.current_sip, e))]
    ELSE r

\* sip_planner.py lines 76-148: the projection for the SIP amount result
required_sip_projection(a, result) ==
    LET r == required_partial_year(a,
                 required_years(a, result,
                     [year |-> 1,
                      month |-> 0,
                      corpus |-> a.initial_investment,
                      current_sip |-> result,
                      total_invested |-> a.initial_investment,
                      year_investment |-> Zero,
                      projections |-> <<>>]))
    IN  [monthly_sip |-> result,
         total_invested |-> r.total_invested,
         final_amount |-> r.corpus,
         projection |-> r.projections]

\* the final amount the bisection compares with target_amount:
\* sip_calculator.py lines 160-169, sip_planner.py line 64
evaluated(fn, a, mid) ==
    IF fn = "calculate_sip_required"
    THEN calculate_sip(sip_call(a, mid)).final_amount
    ELSE calculate_final_amount(a, mid)

\* sip_calculator.py line 159, sip_planner.py line 63: the float sum of the
\* two bounds, halved (halving a float is exact)
midpoint(low, high) == RDivInt(RAddRounded(low, high), 2)

\* searching with a tolerance of 1/2
searching_coarse(low, high) == RLt(R(1, 2), RSubRounded(high, low))

\* the loop condition, sip_calculator.py line 158, sip_planner.py line 62
searching(low, high) == RLt(Tolerance, RSubRounded(high, low))

\* what the solver returns for the SIP amount amount: sip_calculator.py
\* lines 175-182 (the dict calculate_sip returned for it), sip_planner.py
\* lines 76-148
solved(fn, a, amount) ==
    IF fn = "calculate_sip_required"
    THEN calculate_sip(sip_call(a, amount))
    ELSE required_sip_projection(a, amount)

(***************************************************************************)
(* Inputs of the solvers: targets of 0, 1 and 4, a tenure of 0, 1 or 2     *)
(* years with 0, 1 or 12 extra months, a yearly return of 0 or 1200        *)
(* percent.                                                                *)
(***************************************************************************)
TargetAmounts == {RInt(0), RInt(1), RInt(4)}
SolverYears == {0, 1, 2}
SolverStepUps == {RInt(0), RInt(100)}
SolverInitialInvestments == {RInt(0), RInt(1), RInt(8)}
Solvers == {"calculate_sip_required", "calculate_required_sip"}

SolverExtraMonths == {0, 1, 12}

SolverArgs ==
    {a \in [target_amount : TargetAmounts,
            tenure_years : SolverYears,
            rate_of_return : RatesOfReturn,
            yearly_step_up : SolverStepUps,
            initial_investment : SolverInitialInvestments,
            tenure_months : SolverExtraMonths] :
        a.rate_of_return = Zero \/ total_months_of(a) <= MaxGrowthMonths}

\* sip_calculator.py lines 151-156, sip_planner.py lines 35-38; found is
\* "result is not None", result the SIP amount of the last sufficient mid
InitSolve ==
    /\ Idle
    /\ sip \in {[fn |-> f, pc |-> "search", args |-> a,
                 low |-> Zero, high |-> a.target_amount,
                 found |-> FALSE, result |-> Zero, iterations |-> 0] :
                    f \in Solvers, a \in SolverArgs}

\* the passes of the while loop made so far, counted modulo
\* MaxIterations + 1 (the code keeps no count)
counted(iterations) == (iterations + 1) % (MaxIterations + 1)

\* the locals after the pass of the while loop that computed mid from the
\* locals c: sip_calculator.py lines 160-173, sip_planner.py lines 64-70
bisected(c, mid) ==
    IF RLt(evaluated(c.fn, c.args, mid), c.args.target_amount)
    THEN [c EXCEPT !.low = mid,
                   !.iterations = counted(c.iterations)]
    ELSE [c EXCEPT !.high = mid,
                   !.found = TRUE,
                   !.result = mid,
                   !.iterations = counted(c.iterations)]

\* one pass of the while loop: sip_calculator.py lines 158-173,
\* sip_planner.py lines 62-70
Bisect ==
    /\ sip.fn \in Solvers
    /\ sip.pc = "search"
    /\ searching(sip.low, sip.high)
    /\ \E mid \in {midpoint(sip.low, sip.high)} : sip' = bisected(sip, mid)
    /\ UNCHANGED <<params, now_year, pc, year, current_corpus, projections,
                   locals, float_bits>>

\* after the while loop: sip_calculator.py lines 175-182, sip_planner.py
\* lines 73-148
SolveReturn ==
    /\ sip.fn \in Solvers
    /\ sip.pc = "search"
    /\ ~searching(sip.low, sip.high)
    /\ sip' = [fn |-> sip.fn, pc |-> "done", args |-> sip.args,
               low |-> sip.low, high |-> sip.high,
               found |-> sip.found, result |-> sip.result,
               iterations |-> sip.iterations,
               returned |-> solved(sip.fn, sip.args,
                                   IF sip.found THEN sip.result ELSE sip.high)]
    /\ UNCHANGED <<params, now_year, pc, year, current_corpus, projections,
                   locals, float_bits>>

NextSolve == Bisect \/ SolveReturn

SpecSolve == InitSolve /\ [][NextSolve]_vars

(***************************************************************************)
(* The bisections in float arithmetic: float_bits = FloatBits, so that the *)
(* sum of the two bounds and their difference are rounded.  The tenure is  *)
(* 0 or 1 month without lump sum or step-up and the monthly rate is 0 or   *)
(* 1: the final amount of a SIP amount is then 0, the amount or twice the  *)
(* amount, which the floats compute exactly.  The interpreter runs the     *)
(* loop pass after pass and then the return: weak fairness of the step.    *)
(***************************************************************************)
SearchTargets == {RInt(0), RInt(1), RInt(4), RInt(15)}

SearchArgs ==
    [target_amount : SearchTargets,
     tenure_years : {0},
     rate_of_return : RatesOfReturn,
     yearly_step_up : {RInt(0)},
     initial_investment : {RInt(0)},
     tenure_months : ExtraMonths]

InitSearch ==
    /\ params = ScenarioParams
    /\ now_year \in NowYears
    /\ pc = "idle"
    /\ year = 0
    /\ current_corpus = Zero
    /\ projections = <<>>
    /\ locals = <<>>
    /\ float_bits = FloatBits
    /\ sip \in {[fn |-> f, pc |-> "search", args |-> a,
                 low |-> Zero, high |-> a.target_amount,
                 found |-> FALSE, result |-> Zero, iterations |-> 0] :
                    f \in Solvers, a \in SearchArgs}

SpecSearch == InitSearch /\ [][NextSolve]_vars /\ WF_vars(NextSolve)

(***************************************************************************)
(* sip_planner/calculator.py: calculate_sip_amount                         *)
(***************************************************************************)
\* float / float for a divisor other than 0
RDiv(x, y) == RMul(x, R(Den(y), Num(y)))

\* line 33: (1 + monthly_rate) ** total_months - 1
annuity_divisor(a) ==
    RSub(RPow(RAdd(One, monthly_rate_of(a.expected_return_rate)), a.years * 12),
         One)

\* the division of line 31 or of line 33 raises ZeroDivisionError
sip_amount_raises(a) ==
    IF monthly_rate_of(a.expected_return_rate) = Zero
    THEN a.years * 12 = 0
    ELSE annuity_divisor(a) = Zero

\* lines 25-34, when no division raises
calculate_sip_amount(a) ==
    IF monthly_rate_of(a.expected_return_rate) = Zero
    THEN RDiv(a.target_amount, RInt(a.years * 12))
    ELSE RDiv(RMul(a.target_amount, monthly_rate_of(a.expected_return_rate)),
              annuity_divisor(a))

(***************************************************************************)
(* Inputs of calculate_sip_amount.                                         *)
(***************************************************************************)
AmountTargets ==
    {RInt(t) : t \in {0, 1, 12, 24, 100, 120, 1000, 4095, 8190, 100000}}
AmountYears == {0, 1, 2}

AmountArgs ==
    [target_amount : AmountTargets,
     years : AmountYears,
     expected_return_rate : RatesOfReturn]

InitAmount ==
    /\ Idle
    /\ sip \in {[fn |-> "calculate_sip_amount", pc |-> "call", args |-> a] :
                    a \in AmountArgs}

\* the call, lines 25-34
SipAmount ==
    /\ sip.fn = "calculate_sip_amount"
    /\ sip.pc = "call"
    /\ IF sip_amount_raises(sip.args)
       THEN sip' = [sip EXCEPT !.pc = "error"]
       ELSE sip' = [fn |-> "calculate_sip_amount", pc |-> "done",
                    args |-> sip.args,
                    returned |-> calculate_sip_amount(sip.args)]
    /\ UNCHANGED <<params, now_year, pc, year, current_corpus, projections,
                   locals, float_bits>>

NextAmount == SipAmount

SpecAmount == InitAmount /\ [][NextAmount]_vars

(***************************************************************************)
(* sip_planner/calculator.py: calculate_sip_projection                     *)
(***************************************************************************)
\* projection_months with the month's return applied before the
\* contribution is added
RECURSIVE projection_months_return_first(_, _)
projection_months_return_first(a, r) ==
    IF r.left = 0
    THEN r
    ELSE projection_months_return_first(a,
             [left |-> r.left - 1,
              corpus |-> RAdd(RMul(r.corpus,
                                   RAdd(One, monthly_rate_of(a.expected_return_rate))),
                              a.monthly_sip)])

\* lines 61-65: the months of a year, r.left of them still to come
RECURSIVE projection_months(_, _)
projection_months(a, r) ==
    IF r.left = 0
    THEN r
    ELSE projection_months(a,
             [left |-> r.left - 1,
              corpus |-> RMul(RAdd(r.corpus, a.monthly_sip),
                              RAdd(One, monthly_rate_of(a.expected_return_rate)))])

\* lines 57-58: the locals before the loop
projection_start(a) ==
    [year |-> 0, corpus |-> a.initial_investment, projections |-> <<>>]

\* lines 60-77: one pass of the loop, for year s.year + 1
projection_year(a, s) ==
    LET row_year == s.year + 1
        corpus == projection_months(a, [left |-> 12, corpus |-> s.corpus]).corpus
        total_invested == RAdd(RMul(RInt(row_year * 12), a.monthly_sip),
                               a.initial_investment)
    IN  [year |-> row_year,
         corpus |-> corpus,
         projections |-> Append(s.projections,
                                [year |-> row_year,
                                 total_invested |-> total_invested,
                                 corpus |-> corpus,
                                 returns |-> RSub(corpus, total_invested),
                                 xirr |-> a.expected_return_rate])]

\* lines 60-77: the loop from the locals s on
RECURSIVE projection_loop(_, _)
projection_loop(a, s) ==
    IF s.year >= a.years THEN s ELSE projection_loop(a, projection_year(a, s))

\* lines 54-79
calculate_sip_projection(a) == projection_loop(a, projection_start(a)).projections

(***************************************************************************)
(* Inputs of calculate_sip_projection: the amounts calculate_sip_amount    *)
(* returns for a target, fed back with the same years and rate and no      *)
(* initial investment, and amounts of 1, 2 and 3 with an initial           *)
(* investment of 0 or 8.                                                   *)
(***************************************************************************)
ProjectionTargets == {RInt(1), RInt(12), RInt(24), RInt(4095)}
ProjectionYears == {0, 1, 2}

RoundTripArgs ==
    {[monthly_sip |-> calculate_sip_amount(a),
      years |-> a.years,
      expected_return_rate |-> a.expected_return_rate,
      initial_investment |-> Zero] :
        a \in {b \in [target_amount : ProjectionTargets,
                      years : ProjectionYears,
                      expected_return_rate : RatesOfReturn] :
                  ~sip_amount_raises(b)}}

DirectArgs ==
    [monthly_sip : {RInt(1), RInt(2), RInt(3)},
     years : ProjectionYears,
     expected_return_rate : RatesOfReturn,
     initial_investment : {RInt(0), RInt(8)}]

ProjectionArgs == RoundTripArgs \union DirectArgs

InitProjection ==
    /\ Idle
    /\ sip \in {[fn |-> "calculate_sip_projection", pc |-> "loop", args |-> a,
                 s |-> projection_start(a)] : a \in ProjectionArgs}

\* one pass of the loop of lines 60-77
ProjectYear ==
    /\ sip.fn = "calculate_sip_projection"
    /\ sip.pc = "loop"
    /\ sip.s.year < sip.args.years
    /\ sip' = [sip EXCEPT !.s = projection_year(sip.args, sip.s)]
    /\ UNCHANGED <<params, now_year, pc, year, current_corpus, projections,
                   locals, float_bits>>

\* line 79
ProjectReturn ==
    /\ sip.fn = "calculate_sip_projection"
    /\ sip.pc = "loop"
    /\ sip.s.year >= sip.args.years
    /\ sip' = [fn |-> "calculate_sip_projection", pc |-> "done",
               args |-> sip.args, s |-> sip.s,
               returned |-> sip.s.projections]
    /\ UNCHANGED <<params, now_year, pc, year, current_corpus, projections,
                   locals, float_bits>>

NextProjection == ProjectYear \/ ProjectReturn

SpecProjection == InitProjection /\ [][NextProjection]_vars

(***************************************************************************)
(* Properties of generate_yearly_projections.                              *)
(***************************************************************************)
Records == 1..Len(projections)
Last == projections[Len(projections)]

\* corpus_start x (1 + rate) - the four expense fields of record k
Unclamped(k, rate) ==
    RSub(RMul(projections[k].corpus_start, RAdd(One, rate)),
         RAdd(RAdd(RAdd(projections[k].household_expense,
                        projections[k].school_fees),
                   projections[k].graduation_fees),
              projections[k].marriage_expense))

\* C1: every record has corpus_end >= 0; a year whose corpus_start x
\* (1 + return_rate) - total_withdrawals is negative is recorded with
\* corpus_end = 0, and the recorded value is the corpus the next year starts
\* from.
C1_CorpusEndNeverNegative ==
    /\ \A k \in Records :
        /\ RLe(Zero, projections[k].corpus_end)
        /\ RLt(Unclamped(k, locals[k].return_rate), Zero)
              => projections[k].corpus_end = Zero
        /\ k > 1 => projections[k].corpus_start = projections[k - 1].corpus_end
    /\ Len(projections) > 0 => current_corpus = Last.corpus_end

\* a year whose unclamped closing corpus is negative has been recorded
C1_Witness ==
    \E k \in Records :
        /\ RLt(Unclamped(k, locals[k].return_rate), Zero)
        /\ projections[k].corpus_end = Zero

\* C2: a record with corpus_end = 0 and age < life_expectancy is the last
\* record; every record that is not the last has corpus_end > 0; the loop
\* does not go on after such a record.
C2_DepletionStops ==
    /\ \A k \in Records :
        /\ (projections[k].corpus_end = Zero
              /\ projections[k].age < params.life_expectancy)
              => k = Len(projections)
        /\ k < Len(projections) => RLt(Zero, projections[k].corpus_end)
    /\ (Len(projections) > 0 /\ Last.corpus_end = Zero
          /\ Last.age < params.life_expectancy)
          => pc \in {"break", "done"}

\* a projection returned after a depletion before life_expectancy
C2_Witness ==
    /\ pc = "done"
    /\ Len(projections) > 1
    /\ Last.corpus_end = Zero
    /\ Last.age < params.life_expectancy

NoEarlyDepletion ==
    \A k \in Records :
        projections[k].age < params.life_expectancy
            => RLt(Zero, projections[k].corpus_end)

\* C3: when no record before life_expectancy has corpus_end <= 0, exactly
\* life_expectancy - current_age + 1 records are returned and the last has
\* age = life_expectancy, also when its corpus_end is 0.
C3_FullHorizon ==
    (pc = "done" /\ NoEarlyDepletion)
        => /\ Len(projections) = params.life_expectancy - params.current_age + 1
           /\ Last.age = params.life_expectancy

\* a full projection of several years whose life_expectancy record is depleted
C3_Witness ==
    /\ pc = "done"
    /\ NoEarlyDepletion
    /\ Len(projections) > 2
    /\ Last.age = params.life_expectancy
    /\ Last.corpus_end = Zero

\* C4: in every record corpus_end = max(0, corpus_start x (1 + return_rate)
\* - the sum of the four expense fields), return_rate being the rate chosen
\* for that year; in the section 8 scenario the first record has
\* household_expense 600,000 and corpus_end 500,000.
C4_CorpusEndFormula ==
    /\ \A k \in Records :
        projections[k].corpus_end
            = RMax(Zero, Unclamped(k, locals[k].return_rate))
    /\ (params = ScenarioParams /\ Len(projections) > 0)
          => /\ projections[1].age = 30
             /\ projections[1].corpus_start = RInt(1000000)
             /\ projections[1].household_expense = RInt(600000)
             /\ projections[1].corpus_end = RInt(500000)

\* the scenario's first record has been produced
C4_Witness ==
    /\ params = ScenarioParams
    /\ Len(projections) > 0
    /\ projections[1].corpus_end = RInt(500000)

\* C5: a record with age < retirement_age is grown with pre_ret_return, a
\* record with age >= retirement_age (the retirement_age record included)
\* with post_ret_return, and no record after a retired one is not retired.
C5_RateSwitchesAtRetirement ==
    \A k \in Records :
        /\ locals[k].is_retired <=> projections[k].age >= params.retirement_age
        /\ projections[k].age < params.retirement_age
              => /\ locals[k].return_rate = params.pre_ret_return
                 /\ projections[k].corpus_end
                       = RMax(Zero, Unclamped(k, params.pre_ret_return))
        /\ projections[k].age >= params.retirement_age
              => /\ locals[k].return_rate = params.post_ret_return
                 /\ projections[k].corpus_end
                       = RMax(Zero, Unclamped(k, params.post_ret_return))
        /\ \A j \in Records : (j < k /\ locals[j].is_retired) => locals[k].is_retired

\* a projection with a year before retirement, the retirement_age year and a
\* year after it, the two rates being different
C5_Witness ==
    /\ params.pre_ret_return # params.post_ret_return
    /\ \E i, j, k \in Records :
        /\ projections[i].age < params.retirement_age
        /\ projections[j].age = params.retirement_age
        /\ projections[k].age > params.retirement_age
        /\ ~locals[i].is_retired /\ locals[j].is_retired /\ locals[k].is_retired

\* the age of child i of the plan in the year of record k
ChildAgeIn(k, i) ==
    params.children[i].current_age + (projections[k].age - params.current_age)

Children == 1..Len(params.children)

\* C6: calculate_school_fees returns a non-zero amount only for a child age
\* in [5, 17], calculate_graduation_fees only for a child age in [18, 21], and
\* no year charges one child both school and graduation fees.
C6_FeeWindowsDisjoint ==
    \A k \in Records : \A i \in Children :
        /\ locals[k].charges[i].school # Zero
              => (SchoolStartAge <= ChildAgeIn(k, i) /\ ChildAgeIn(k, i) <= SchoolEndAge)
        /\ locals[k].charges[i].graduation # Zero
              => (GraduationStartAge <= ChildAgeIn(k, i)
                    /\ ChildAgeIn(k, i) <= GraduationEndAge)
        /\ ~(locals[k].charges[i].school # Zero
               /\ locals[k].charges[i].graduation # Zero)

\* one child charged school fees at 17 and graduation fees at 18, and not
\* the other fee in either year
C6_Witness ==
    \E k \in Records : \E i \in Children :
        /\ k > 1
        /\ ChildAgeIn(k - 1, i) = SchoolEndAge
        /\ locals[k - 1].charges[i].school # Zero
        /\ locals[k - 1].charges[i].graduation = Zero
        /\ ChildAgeIn(k, i) = GraduationStartAge
        /\ locals[k].charges[i].graduation # Zero
        /\ locals[k].charges[i].school = Zero

\* the records that charge child i its marriage cost
MarriageRecords(i) == {k \in Records : locals[k].charges[i].marriage # Zero}

\* C7 as stated: every child's marriage cost is charged in exactly one record
\* of the returned projection, the one where the child is of marriage_age.
C7_MarriageExactlyOnce ==
    pc = "done"
        => \A i \in Children :
              /\ Cardinality(MarriageRecords(i)) = 1
              /\ \A k \in MarriageRecords(i) :
                    ChildAgeIn(k, i) = params.children[i].marriage_age

\* C7 as amended: a child's marriage cost is charged in the record where the
\* child is of marriage_age, if the projection has that record, and in no
\* other record: in at most one record, and in none when marriage_age is not
\* among the child ages of the records produced.
C7_MarriageAtMostOnce ==
    \A i \in Children :
        /\ MarriageRecords(i)
              = {k \in Records : ChildAgeIn(k, i) = params.children[i].marriage_age}
        /\ Cardinality(MarriageRecords(i)) <= 1
        /\ \A k \in MarriageRecords(i) :
              locals[k].charges[i].marriage
                  = RMul(params.children[i].marriage_cost,
                         RPow(RAdd(One, params.inflation), k - 1))

\* a returned projection that charged one child its marriage in its third
\* record only and never charged another child
C7_Witness ==
    /\ pc = "done"
    /\ \E i, j \in Children :
          /\ MarriageRecords(i) = {3}
          /\ MarriageRecords(j) = {}

\* marriage_age is not among the ages child i reaches from current_age to
\* life_expectancy
MarriageOutOfRange(i) ==
    \/ params.children[i].marriage_age < params.children[i].current_age
    \/ params.children[i].marriage_age
          > params.children[i].current_age
              + (params.life_expectancy - params.current_age)

\* sum over the children other than i of what record k charged for marriage
RECURSIVE MarriageOfOthers(_, _, _)
MarriageOfOthers(k, i, n) ==
    IF n = 0
    THEN Zero
    ELSE RAdd(MarriageOfOthers(k, i, n - 1),
              IF n = i THEN Zero ELSE locals[k].charges[n].marriage)

\* C8: with a child whose marriage_age is outside the child ages of the
\* projection, the call raises no error, each pass of the loop brings it one
\* year closer to life_expectancy, where it returns, and no record's
\* marriage_expense holds a contribution of that child.
C8_MarriageOutOfRangeNeverFires ==
    \A i \in Children :
        MarriageOutOfRange(i)
            => /\ pc # "error"
               /\ pc = "loop"
                     => /\ Len(projections) = year - params.current_age
                        /\ year <= params.life_expectancy + 1
               /\ \A k \in Records :
                     /\ locals[k].charges[i].marriage = Zero
                     /\ projections[k].marriage_expense
                           = MarriageOfOthers(k, i, Len(params.children))

\* a returned projection of several years with a child whose marriage_age is
\* behind it and a child whose marriage_age is beyond life_expectancy
C8_Witness ==
    /\ pc = "done"
    /\ Len(projections) > 2
    /\ \E i, j \in Children :
          /\ params.children[i].marriage_age < params.children[i].current_age
          /\ params.children[j].marriage_age
                > params.children[j].current_age
                    + (params.life_expectancy - params.current_age)

\* C9: with no children and inflation 0 every record has household_expense
\* = monthly_expenses x 12 and no school, graduation or marriage amount.
C9_FlatHousehold ==
    (params.children = <<>> /\ params.inflation = Zero)
        => \A k \in Records :
              /\ projections[k].household_expense
                    = RMul(params.monthly_expenses, RInt(12))
              /\ projections[k].school_fees = Zero
              /\ projections[k].graduation_fees = Zero
              /\ projections[k].marriage_expense = Zero

\* a childless projection of several years without inflation and with
\* expenses
C9_Witness ==
    /\ params.children = <<>>
    /\ params.inflation = Zero
    /\ params.monthly_expenses # Zero
    /\ Len(projections) > 2
    /\ projections[3].household_expense = RMul(params.monthly_expenses, RInt(12))

\* the pre_ret_return values a projection is compared with
CompareRates == {Zero, Half, One}

\* the projection of the same plan under pre_ret_return r
WithPreReturn(r) ==
    generate_yearly_projections([params EXCEPT !.pre_ret_return = r], now_year)

\* C10: if the projection never depletes, then for every pre_ret_return r2
\* in [0, 1] that is at least the plan's, all else equal, the projection has
\* as many records and its last record's corpus_start and corpus_end are not
\* smaller.
C10_MonotoneInPreReturn ==
    (pc = "done" /\ NoEarlyDepletion
        /\ RLe(Zero, params.pre_ret_return) /\ RLe(params.pre_ret_return, One))
        => \A r2 \in CompareRates :
              RLe(params.pre_ret_return, r2)
                  => LET other == WithPreReturn(r2)
                     IN  /\ Len(other) = Len(projections)
                         /\ RLe(Last.corpus_start, other[Len(other)].corpus_start)
                         /\ RLe(Last.corpus_end, other[Len(other)].corpus_end)

\* a projection that never depletes, with years before retirement, and a
\* larger pre_ret_return that makes its last record strictly richer
C10_Witness ==
    /\ pc = "done"
    /\ NoEarlyDepletion
    /\ Len(projections) > 2
    /\ \E r2 \in CompareRates :
          /\ RLt(params.pre_ret_return, r2)
          /\ RLt(Last.corpus_start,
                 WithPreReturn(r2)[Len(projections)].corpus_start)
          /\ RLt(Last.corpus_end,
                 WithPreReturn(r2)[Len(projections)].corpus_end)

\* the permutations of 1..n
Permutations(n) ==
    {f \in [1..n -> 1..n] : \A i, j \in 1..n : f[i] = f[j] => i = j}

\* the plan with its children listed in the order f
Reordered(f) ==
    [params EXCEPT !.children = [i \in 1..Len(params.children) |->
                                    params.children[f[i]]]]

C18_InputAndRecordsFrozen ==
    [][/\ params' = params
       /\ Len(projections') >= Len(projections)
       /\ \A k \in Records : projections'[k] = projections[k]]_vars

\* a projection of a plan with children that has appended several records
\* that differ from each other
C18_Witness ==
    /\ params.children # <<>>
    /\ Len(projections) > 2
    /\ projections[1] # projections[2]
    /\ projections[2] # projections[3]

\* C19: the first record has age = current_age and corpus_start =
\* current_corpus; every later record has the previous record's age + 1 and
\* starts from the previous record's corpus_end.
C19_RecordsChain ==
    \A k \in Records :
        IF k = 1
        THEN /\ projections[1].age = params.current_age
             /\ projections[1].corpus_start = params.current_corpus
        ELSE /\ projections[k].age = projections[k - 1].age + 1
             /\ projections[k].corpus_start = projections[k - 1].corpus_end

\* a projection whose third record starts from a corpus that is neither the
\* plan's current_corpus nor 0
C19_Witness ==
    /\ Len(projections) > 2
    /\ projections[3].corpus_start # params.current_corpus
    /\ projections[3].corpus_start # Zero
    /\ projections[3].corpus_start = projections[2].corpus_end

\* C20: for a child of age a in [5, 17] with fee_increase_frequency f >= 1
\* the school fee charged is school_fee x (1 + school_fee_increase)^n x
\* (1 + inflation)^years_elapsed with n = floor((a - 5) / f), whatever the
\* year of the plan, and n does not decrease from one record to the next.
C20_SchoolFeeIncreases ==
    \A k \in Records : \A i \in Children :
        LET child == params.children[i]
            a == ChildAgeIn(k, i)
            f == child.fee_increase_frequency
            increases(age) == CHOOSE n \in 0..(SchoolEndAge - SchoolStartAge) :
                                  n * f <= age - 5 /\ age - 5 < (n + 1) * f
        IN  (5 <= a /\ a <= 17 /\ f >= 1)
                => /\ locals[k].charges[i].school
                         = RMul(RMul(child.school_fee,
                                     RPow(RAdd(One, child.school_fee_increase),
                                          increases(a))),
                                RPow(RAdd(One, params.inflation), k - 1))
                   /\ (k > 1 /\ 5 <= a - 1) => increases(a - 1) <= increases(a)

\* the first record of a plan charges a child of 16 whose fee rises every
\* second year the five increases of its earlier school years
C20_Witness ==
    \E i \in Children :
        /\ Len(projections) > 0
        /\ ChildAgeIn(1, i) = 16
        /\ params.children[i].fee_increase_frequency = 2
        /\ params.children[i].school_fee_increase # Zero
        /\ locals[1].charges[i].school
              = RMul(params.children[i].school_fee,
                     RPow(RAdd(One, params.children[i].school_fee_increase), 5))

\* C14: a call with current_age > retirement_age, retirement_age >
\* life_expectancy or a child with fee_increase_frequency < 1 never returns
\* a record sequence: it ends in an error.
C14_InvalidInputFailsFast ==
    InvalidInput(params) => pc # "done"

\* C16: the records a call returns are, in every field, the records of any
\* other call with equal RetirementParams, in whatever calendar year that
\* other call runs.
C16_SameRecordsWhateverTheClock ==
    pc = "done"
        => \A now \in ClockYears :
              generate_yearly_projections(params, now) = projections

(***************************************************************************)
(* Properties of calculate_sip.                                            *)
(***************************************************************************)
\* the locals at the end of the loop of the same call in 'fixed' mode
FixedRun == sip_loop([sip.args EXCEPT !.step_up_type = "fixed"],
                     sip_start([sip.args EXCEPT !.step_up_type = "fixed"]))

\* C12 for every tenure of at least 2 years: with a positive contribution
\* and a positive step-up the contribution in force at the end of a
\* 'compounded' run is strictly larger than at the end of the 'fixed' run.
C12_CompoundedLargerFromTwoYears ==
    (/\ sip.pc = "done"
     /\ sip.args.step_up_type = "compounded"
     /\ RLt(Zero, sip.args.monthly_investment)
     /\ RLt(Zero, sip.args.yearly_step_up)
     /\ sip.args.tenure_years >= 2)
        => RLt(FixedRun.current_investment, sip.s.current_investment)

\* C12 for every tenure of more than 24 months, the tenures with at least
\* two year ends before the final month: the contribution in force at the
\* end of a 'compounded' run is strictly larger than at the end of the
\* 'fixed' run.
C12_CompoundedLargerAfterTwoStepUps ==
    (/\ sip.pc = "done"
     /\ sip.args.step_up_type = "compounded"
     /\ RLt(Zero, sip.args.monthly_investment)
     /\ RLt(Zero, sip.args.yearly_step_up)
     /\ total_months_of(sip.args) > 24)
        => RLt(FixedRun.current_investment, sip.s.current_investment)

\* a 'compounded' run of 25 months with a step-up of 50 percent has ended
\* with 9/4 of the first contribution, its 'fixed' twin with twice the first
C12_Witness ==
    /\ sip.pc = "done"
    /\ sip.args.step_up_type = "compounded"
    /\ total_months_of(sip.args) = 25
    /\ sip.args.yearly_step_up = RInt(50)
    /\ sip.s.current_investment = RMul(R(9, 4), sip.args.monthly_investment)
    /\ FixedRun.current_investment = RMul(RInt(2), sip.args.monthly_investment)

\* the lump sum followed by the logged contributions from the (r.k + 1)-th
\* on: each is added to invested and to corpus, and corpus is then
\* multiplied by 1 + monthly_rate
RECURSIVE Replayed(_)
Replayed(r) ==
    IF r.k = Len(sip.s.paid)
    THEN r
    ELSE Replayed([k |-> r.k + 1,
                   corpus |-> RMul(RAdd(r.corpus, sip.s.paid[r.k + 1]),
                                   RAdd(One, monthly_rate_of(sip.args.rate_of_return))),
                   invested |-> RAdd(r.invested, sip.s.paid[r.k + 1])])

ReplayedAll ==
    Replayed([k |-> 0,
              corpus |-> sip.args.initial_investment,
              invested |-> sip.args.initial_investment])

\* C13: a returned call has made tenure_years x 12 + tenure_months monthly
\* steps; final_amount is the corpus of adding each month's contribution and
\* then multiplying by 1 + monthly_rate, total_invested is the lump sum plus
\* all contributions, total_returns is their difference; 10,000 a month for
\* 1 year without step-up and lump sum invests 120,000 and, at a positive
\* rate, returns more.
C13_SipRecurrence ==
    sip.pc = "done"
        => LET n == (sip.args.tenure_years * 12) + sip.args.tenure_months
           IN  /\ sip.s.month = n
               /\ Len(sip.s.paid) = n
               /\ sip.result.final_amount = ReplayedAll.corpus
               /\ sip.result.total_invested = ReplayedAll.invested
               /\ sip.result.total_returns
                     = RSub(sip.result.final_amount, sip.result.total_invested)
               /\ (/\ sip.args.monthly_investment = RInt(10000)
                   /\ n = 12
                   /\ sip.args.yearly_step_up = Zero
                   /\ sip.args.initial_investment = Zero)
                     => /\ sip.result.total_invested = RInt(120000)
                        /\ RLt(Zero, sip.args.rate_of_return)
                              => RLt(RInt(120000), sip.result.final_amount)

\* 10,000 a month for 1 year at a positive rate, no step-up, no lump sum,
\* has returned
C13_Witness ==
    /\ sip.pc = "done"
    /\ sip.args.monthly_investment = RInt(10000)
    /\ sip.args.tenure_years = 1
    /\ sip.args.tenure_months = 0
    /\ sip.args.yearly_step_up = Zero
    /\ sip.args.initial_investment = Zero
    /\ RLt(Zero, sip.args.rate_of_return)
    /\ sip.result.total_invested = RInt(120000)

(***************************************************************************)
(* Properties of the solvers.                                              *)
(***************************************************************************)
\* C11: the final_amount a solver returns differs from target_amount by at
\* most the tolerance 0.01.
C11_FinalAmountWithinTolerance ==
    sip.pc = "done"
        => /\ RLe(RSub(sip.returned.final_amount, sip.args.target_amount),
                  Tolerance)
           /\ RLe(RSub(sip.args.target_amount, sip.returned.final_amount),
                  Tolerance)

(***************************************************************************)
(* Properties of calculate_sip_amount.                                     *)
(***************************************************************************)
\* C15: a call with expected_return_rate == 0 does not fail and returns
\* target_amount / total_months, for every years.
C15_ZeroRateNeverFails ==
    (sip.pc # "call" /\ sip.args.expected_return_rate = Zero)
        => /\ sip.pc = "done"
           /\ RMul(sip.returned, RInt(sip.args.years * 12)) = sip.args.target_amount

(***************************************************************************)
(* Properties of calculate_sip: rows and step-ups                          *)
(***************************************************************************)
\* C21: a pass of the loop for month m appends a row exactly when
\* m % 12 == 0 and m < total_months, and that row shows the contribution
\* paid in month m, before the step-up; the return appends exactly one more
\* row when total_months is not a multiple of 12 or the list of rows is
\* empty, and none otherwise.
C21_RowRecording ==
    [][(sip.fn = "calculate_sip" /\ sip.pc = "loop")
          => IF sip'.pc = "loop"
             THEN LET m == sip'.s.month
                      rows == sip'.s.projections
                  IN  IF m % 12 = 0 /\ m < total_months_of(sip.args)
                      THEN /\ Len(rows) = Len(sip.s.projections) + 1
                           /\ SubSeq(rows, 1, Len(sip.s.projections)) = sip.s.projections
                           /\ rows[Len(rows)].year = m \div 12
                           /\ rows[Len(rows)].monthly_investment
                                 = sip.s.current_investment
                           /\ rows[Len(rows)].total_invested = sip'.s.total_invested
                           /\ rows[Len(rows)].corpus = sip'.s.corpus
                      ELSE rows = sip.s.projections
             ELSE LET rows == sip'.result.projection
                  IN  IF total_months_of(sip.args) % 12 # 0 \/ sip.s.projections = <<>>
                      THEN /\ Len(rows) = Len(sip.s.projections) + 1
                           /\ SubSeq(rows, 1, Len(sip.s.projections)) = sip.s.projections
                           /\ rows[Len(rows)].corpus = sip.s.corpus
                      ELSE rows = sip.s.projections]_vars

\* a call of 25 months with a step-up has returned the rows of months 12 and
\* 24, which show different contributions, and one row more
C21_Witness ==
    /\ sip.fn = "calculate_sip"
    /\ sip.pc = "done"
    /\ total_months_of(sip.args) = 25
    /\ sip.args.initial_investment = Zero
    /\ Len(sip.result.projection) = 3
    /\ sip.result.projection[1].monthly_investment = sip.args.monthly_investment
    /\ sip.result.projection[2].monthly_investment # sip.args.monthly_investment

\* the 12-month boundaries that are not the final month, among the first
\* m months of the call
Boundaries(a, m) ==
    Cardinality({j \in 1..m : j % 12 = 0 /\ j < total_months_of(a)})

\* monthlyContribution x (1 + s)^k and monthlyContribution x (1 + k x s)
Scheduled(a, k) ==
    IF a.step_up_type = "compounded"
    THEN RMul(a.monthly_investment,
              RPow(RAdd(One, RDivInt(a.yearly_step_up, 100)), k))
    ELSE RMul(a.monthly_investment,
              RAdd(One, RMul(RInt(k), RDivInt(a.yearly_step_up, 100))))

\* C22: after every month of calculate_sip the contribution in force is
\* monthlyContribution x (1 + s)^k in compounded mode and
\* monthlyContribution x (1 + k x s) in fixed mode, k being the number of
\* 12-month boundaries passed that are not the final month; it is
\* monthlyContribution during the first 12 months, and every contribution
\* paid is the scheduled one of its month.
C22_StepUpSchedule ==
    (sip.fn = "calculate_sip")
       => /\ sip.s.current_investment
                = Scheduled(sip.args, Boundaries(sip.args, sip.s.month))
          /\ \A j \in 1..Len(sip.s.paid) :
                /\ sip.s.paid[j] = Scheduled(sip.args, Boundaries(sip.args, j - 1))
                /\ j <= 12 => sip.s.paid[j] = sip.args.monthly_investment

\* a call has passed two boundaries with a step-up of 50 percent: the
\* contribution in force is 2.25 times the first one in compounded mode and
\* twice the first one in fixed mode
C22_Witness ==
    /\ sip.fn = "calculate_sip"
    /\ sip.pc = "loop"
    /\ sip.args.yearly_step_up = RInt(50)
    /\ Boundaries(sip.args, sip.s.month) = 2
    /\ sip.s.month = 25
    /\ sip.s.current_investment
          = RMul(sip.args.monthly_investment,
                 IF sip.args.step_up_type = "compounded" THEN R(9, 4) ELSE RInt(2))
    /\ sip.s.paid[12] = sip.args.monthly_investment
    /\ sip.s.paid[13] # sip.args.monthly_investment

(***************************************************************************)
(* Properties of the bisection loops                                       *)
(***************************************************************************)
\* C23: the bisection loop of either solver terminates for every target,
\* tenure and rate: every call leaves its while loop and returns.
C23_BisectionTerminates == <>(sip.fn \in Solvers /\ sip.pc = "done")

\* a pass of the loop that leaves both bounds where they were, more than the
\* tolerance apart
C23_Witness ==
    /\ sip.fn \in Solvers
    /\ sip.pc = "search"
    /\ searching(sip.low, sip.high)
    /\ LET mid == midpoint(sip.low, sip.high)
       IN  IF RLt(evaluated(sip.fn, sip.args, mid), sip.args.target_amount)
           THEN mid = sip.low
           ELSE mid = sip.high

\* C24: the final_amount calculate_required_sip returns is
\* calculate_final_amount of the monthly_sip it returns, for every
\* tenure_months: the re-run simulates the months the evaluator simulated.
C24_RerunMatchesEvaluator ==
    (sip.fn = "calculate_required_sip" /\ sip.pc = "done")
       => sip.returned.final_amount
             = calculate_final_amount(sip.args, sip.returned.monthly_sip)

\* a call with tenure_months = 12 has returned a final_amount that is not
\* the evaluator's
C24_Witness ==
    /\ sip.fn = "calculate_required_sip"
    /\ sip.pc = "done"
    /\ sip.args.tenure_months = 12
    /\ sip.args.tenure_years = 1
    /\ sip.returned.monthly_sip # Zero
    /\ RLt(sip.returned.final_amount,
           calculate_final_amount(sip.args, sip.returned.monthly_sip))

\* for tenure_months below 12 the returned final_amount is the evaluator's
C24_RerunMatchesEvaluatorBelowTwelve ==
    (sip.fn = "calculate_required_sip" /\ sip.pc = "done"
        /\ sip.args.tenure_months < 12)
       => sip.returned.final_amount
             = calculate_final_amount(sip.args, sip.returned.monthly_sip)

\* C25: in every row calculate_required_sip returns, monthly_sip is the
\* contribution paid in the row's months: yearly_investment is 12 times
\* monthly_sip in a full-year row and tenure_months % 12 times monthly_sip
\* in the trailing partial-year row.
C25_RowsShowContributionInForce ==
    (sip.fn = "calculate_required_sip" /\ sip.pc = "done")
       => \A i \in 1..Len(sip.returned.projection) :
             LET row == sip.returned.projection[i]
                 months == IF i <= sip.args.tenure_years
                           THEN 12
                           ELSE sip.args.tenure_months % 12
             IN  row.yearly_investment = RMul(RInt(months), row.monthly_sip)

\* a call of 25 months with a step-up has returned a second-year row whose
\* monthly_sip is not a twelfth of the row's yearly_investment
C25_Witness ==
    /\ sip.fn = "calculate_required_sip"
    /\ sip.pc = "done"
    /\ sip.args.tenure_years = 2
    /\ sip.args.tenure_months = 1
    /\ sip.args.yearly_step_up # Zero
    /\ Len(sip.returned.projection) = 3
    /\ sip.returned.projection[1].yearly_investment
          = RMul(RInt(12), sip.returned.projection[1].monthly_sip)
    /\ RLt(sip.returned.projection[2].yearly_investment,
           RMul(RInt(12), sip.returned.projection[2].monthly_sip))

(***************************************************************************)
(* Properties of calculate_sip_projection                                  *)
(***************************************************************************)
\* the arguments of the calculate_sip_amount call for the target t whose
\* return the projection sip was run with
AmountCall(t) ==
    [target_amount |-> t,
     years |-> sip.args.years,
     expected_return_rate |-> sip.args.expected_return_rate]

\* the projection sip was run with calculate_sip_amount's return for the
\* target t > 0, with the same years >= 1 and rate and no initial investment
RoundTripOf(t) ==
    /\ sip.fn = "calculate_sip_projection"
    /\ sip.pc = "done"
    /\ RLt(Zero, t)
    /\ sip.args.years >= 1
    /\ sip.args.initial_investment = Zero
    /\ ~sip_amount_raises(AmountCall(t))
    /\ sip.args.monthly_sip = calculate_sip_amount(AmountCall(t))

\* C26: the projection of calculate_sip_amount(target_amount, years, rate)
\* over the same years at the same rate, without initial investment, ends
\* with a corpus equal to target_amount.
C26_RoundTrip ==
    \A t \in ProjectionTargets :
        RoundTripOf(t) => sip.returned[Len(sip.returned)].corpus = t

\* a round trip at a positive rate has ended with a corpus of target_amount
\* times 1 + monthly_rate
C26_Witness ==
    \E t \in ProjectionTargets :
        /\ RoundTripOf(t)
        /\ sip.args.expected_return_rate # Zero
        /\ sip.returned[Len(sip.returned)].corpus
              = RMul(t, RAdd(One, monthly_rate_of(sip.args.expected_return_rate)))

\* at a rate of 0 the round trip ends with a corpus equal to target_amount
C26_RoundTripAtZeroRate ==
    \A t \in ProjectionTargets :
        (RoundTripOf(t) /\ sip.args.expected_return_rate = Zero)
            => sip.returned[Len(sip.returned)].corpus = t

(***************************************************************************)
(* Properties of the three simulations                                     *)
(***************************************************************************)
\* the rows calculate_sip_projection returns for the contribution, the full
\* years, the rate and the lump sum of the calculate_sip call sip
ProjectionOfCall ==
    calculate_sip_projection(
        [monthly_sip |-> sip.args.monthly_investment,
         years |-> sip.args.tenure_years,
         expected_return_rate |-> sip.args.rate_of_return,
         initial_investment |-> sip.args.initial_investment])

\* C27: the final_amount calculate_sip returns in 'compounded' mode is what
\* calculate_required_sip's evaluator calculate_final_amount computes for
\* the same contribution, tenure, rate, step-up, lump sum and extra months;
\* without step-up and extra months it is also the corpus of the last row
\* of calculate_sip_projection, when the tenure has a year for a row.
C27_SameRecurrence ==
    (sip.fn = "calculate_sip" /\ sip.pc = "done"
        /\ sip.args.step_up_type = "compounded")
       => /\ sip.result.final_amount
                = calculate_final_amount(sip.args, sip.args.monthly_investment)
          /\ (/\ sip.args.yearly_step_up = Zero
              /\ sip.args.tenure_months = 0
              /\ sip.args.tenure_years >= 1)
                => ProjectionOfCall[Len(ProjectionOfCall)].corpus
                      = sip.result.final_amount

\* a call of one year at a positive rate with a lump sum, without step-up
\* and extra months, has returned a final_amount above what was invested,
\* which the other two simulations compute too
C27_Witness ==
    /\ sip.fn = "calculate_sip"
    /\ sip.pc = "done"
    /\ sip.args.step_up_type = "compounded"
    /\ sip.args.yearly_step_up = Zero
    /\ sip.args.tenure_months = 0
    /\ sip.args.tenure_years = 1
    /\ RLt(Zero, sip.args.rate_of_return)
    /\ RLt(Zero, sip.args.initial_investment)
    /\ RLt(sip.result.total_invested, sip.result.final_amount)
    /\ Len(ProjectionOfCall) = 1
    /\ ProjectionOfCall[1].corpus = sip.result.final_amount
    /\ calculate_final_amount(sip.args, sip.args.monthly_investment)
          = sip.result.final_amount

(***************************************************************************)
(* Properties of the final amount as a function of the contribution       *)
(***************************************************************************)
\* the contributions the one of the call is compared with
Contributions == MonthlyInvestments \union {RInt(0), R(1, 2), RInt(2)}

\* the call sip with the contribution c
WithContribution(c) == [sip.args EXCEPT !.monthly_investment = c]

\* C28: for the tenure, rate, step-up, lump sum, extra months and mode of
\* a call, a contribution that is not larger gives a final_amount that is
\* not larger, with calculate_sip and with calculate_final_amount.
C28_MonotoneInContribution ==
    (sip.fn = "calculate_sip" /\ sip.pc = "done")
       => \A c \in Contributions :
             RLe(c, sip.args.monthly_investment)
                => /\ RLe(calculate_sip(WithContribution(c)).final_amount,
                          sip.result.final_amount)
                   /\ RLe(calculate_final_amount(sip.args, c),
                          calculate_final_amount(sip.args,
                                                 sip.args.monthly_investment))

\* a call with a step-up has returned more than the same call with a
\* smaller contribution returns
C28_Witness ==
    /\ sip.fn = "calculate_sip"
    /\ sip.pc = "done"
    /\ sip.args.monthly_investment = RInt(10000)
    /\ RLt(Zero, sip.args.yearly_step_up)
    /\ total_months_of(sip.args) = 25
    /\ \A c \in Contributions :
          RLt(c, sip.args.monthly_investment)
             => /\ RLt(calculate_sip(WithContribution(c)).final_amount,
                       sip.result.final_amount)
                /\ RLt(calculate_final_amount(sip.args, c),
                       calculate_final_amount(sip.args,
                                              sip.args.monthly_investment))

(***************************************************************************)
(* Properties of the rows calculate_sip returns                            *)
(***************************************************************************)
\* C29: the last row of the projection of a call of at least one month is
\* the end of the simulation: its corpus is final_amount and its
\* total_invested is the returned total_invested.
C29_LastRowIsTheEnd ==
    (sip.fn = "calculate_sip" /\ sip.pc = "done"
        /\ total_months_of(sip.args) >= 1)
       => /\ sip.result.projection # <<>>
          /\ sip.result.projection[Len(sip.result.projection)].corpus
                = sip.result.final_amount
          /\ sip.result.projection[Len(sip.result.projection)].total_invested
                = sip.result.total_invested

\* a call of 24 months has returned the row of month 12 as its last row,
\* with half of what was invested in the end
C29_Witness ==
    /\ sip.fn = "calculate_sip"
    /\ sip.pc = "done"
    /\ total_months_of(sip.args) = 24
    /\ sip.args.yearly_step_up = Zero
    /\ sip.args.initial_investment = Zero
    /\ Len(sip.result.projection) = 1
    /\ sip.result.projection[1].year = 1
    /\ RMul(RInt(2), sip.result.projection[1].total_invested)
          = sip.result.total_invested

\* when the total of months is not a multiple of 12, or is 12 without lump
\* sum, the last row is the end of the simulation
C29_LastRowIsTheEndOfPartialYears ==
    (sip.fn = "calculate_sip" /\ sip.pc = "done"
        /\ total_months_of(sip.args) >= 1
        /\ \/ total_months_of(sip.args) % 12 # 0
           \/ /\ total_months_of(sip.args) = 12
              /\ sip.args.initial_investment = Zero)
       => /\ sip.result.projection # <<>>
          /\ sip.result.projection[Len(sip.result.projection)].corpus
                = sip.result.final_amount
          /\ sip.result.projection[Len(sip.result.projection)].total_invested
                = sip.result.total_invested

(***************************************************************************)
(* Properties of the solved contribution                                   *)
(***************************************************************************)
\* the final amount the solver of the call sip computes for the
\* contribution c
Evaluator(c) == evaluated(sip.fn, sip.args, c)

\* the contribution the bisection resolved: sip_calculator.py line 175,
\* sip_planner.py lines 73-74
Resolved == IF sip.found THEN sip.result ELSE sip.high

\* the evaluator gives less than the target at contribution 0 and at least
\* the target at contribution target_amount
Bracketed ==
    /\ RLt(Evaluator(Zero), sip.args.target_amount)
    /\ RLe(sip.args.target_amount, Evaluator(sip.args.target_amount))

\* C30: when the evaluator gives less than target_amount at contribution 0
\* and at least target_amount at contribution target_amount, the resolved
\* contribution c is the last upper bound of the bisection, the evaluator
\* gives at least target_amount at c and less than target_amount at
\* c - 0.01, and c is within the tolerance of a lower bound at which the
\* evaluator gives less than target_amount.
C30_Minimality ==
    (sip.fn \in Solvers /\ sip.pc = "done" /\ Bracketed)
       => /\ Resolved = sip.high
          /\ RLe(sip.args.target_amount, Evaluator(Resolved))
          /\ RLt(Evaluator(RSub(Resolved, Tolerance)), sip.args.target_amount)
          /\ RLe(RSub(Resolved, sip.low), Tolerance)
          /\ RLt(Evaluator(sip.low), sip.args.target_amount)

\* a bisection for the target 4 has returned after moving both bounds
C30_Witness ==
    /\ sip.fn \in Solvers
    /\ sip.pc = "done"
    /\ Bracketed
    /\ sip.args.target_amount = RInt(4)
    /\ sip.found
    /\ RLt(Zero, sip.low)
    /\ RLt(sip.high, sip.args.target_amount)
    /\ sip.iterations >= 9

====
